---- MODULE Spec2Model ----
(***************************************************************************)
(* Model of ChatProPlugin (src/main.py): the per-conversation ledger of    *)
(* sent message ids and the handlers that record, recall and list them.    *)
(* Handlers are coroutines on one event loop: each action below is the     *)
(* code that runs between two suspension points (await) of one handler.    *)
(* Time is counted in ticks of half a second.                              *)
(***************************************************************************)
EXTENDS Integers, Sequences, FiniteSets, TLC

\* ------------------------------------------------------------ bounds
NumTasks == 2          \* handler invocations that may be in flight together
MaxEvents == 3         \* handler invocations started in a behaviour of Spec
MaxTime == 1           \* clock ticks in a behaviour of Spec
CapRecords == 22       \* post-send events in a behaviour of SpecCap
CapRecalls == 2        \* recall and list events in a behaviour of SpecCap
RaceEvents == 4        \* handler invocations started in a behaviour of SpecRace

\* ------------------------------------------------- program constants
max_messages_per_session == 20
SETTLE_DELAY == 1      \* asyncio.sleep(0.5): one tick of half a second
SUPPORTED == {"aiocqhttp"}
MARKER == <<"[", "r", "e", "c", "a", "l", "l", "]">>

\* ------------------------------------------------------------ inputs
Tasks == 1..NumTasks
Keys == {"k1", "k2"}
Platforms == {"aiocqhttp", "telegram"}
Texts == { <<"[", "r", "e", "c", "a", "l", "l", "]">>,
           <<" ", "[", "R", "e", "c", "a", "l", "l", "]", "\n">>,
           <<"[", "r", "e", "c", "a", "l", "l", "]", " ", "x">>,
           <<" ">> }
\* the texts a reply may carry: a marker after other text, the marker alone, and
\* plain text
DONE == <<"d", "o", "n", "e">>
DONE_RECALL == DONE \o MARKER
SendTexts == {DONE_RECALL, MARKER, DONE}

VARIABLES sent_messages, task, alive, now, nextId, cnt, wire

vars == <<sent_messages, task, alive, now, nextId, cnt, wire>>

\* ------------------------------------------------------- pure helpers
Whitespace == {" ", "\t", "\n", "\r"}

Upper == <<"A","B","C","D","E","F","G","H","I","J","K","L","M",
           "N","O","P","Q","R","S","T","U","V","W","X","Y","Z">>
LowerOf == <<"a","b","c","d","e","f","g","h","i","j","k","l","m",
             "n","o","p","q","r","s","t","u","v","w","x","y","z">>

lowerChar(c) ==
  IF \E i \in 1..Len(Upper) : Upper[i] = c
  THEN LowerOf[CHOOSE i \in 1..Len(Upper) : Upper[i] = c]
  ELSE c

\* str.lower()
lower(s) == [i \in 1..Len(s) |-> lowerChar(s[i])]

\* str.strip(): drops the leading and the trailing whitespace
strip(s) ==
  LET keep == {i \in 1..Len(s) : s[i] \notin Whitespace}
  IN IF keep = {} THEN <<>>
     ELSE LET lo == CHOOSE i \in keep : \A j \in keep : i <= j
              hi == CHOOSE i \in keep : \A j \in keep : j <= i
          IN SubSeq(s, lo, hi)

\* (variant: startswith instead of ==)
is_recall_keyword_prefix(text) ==
  LET m == lower(strip(text))
  IN Len(m) >= Len(MARKER) /\ SubSeq(m, 1, Len(MARKER)) = MARKER
\* message_str.lower() == "[recall]" on the stripped text
is_recall_keyword(text) == lower(strip(text)) = MARKER

\* is_recall_keyword of every inbound text of the model, computed once
KeywordOf == [text \in Texts \cup SendTexts |-> is_recall_keyword(text)]

\* (variant: only None is taken for no id)
truthy_not_none(message_id) == message_id # <<>>
\* `if message_id:` an absent id is <<>>, a present one <<n>>; None and 0 are falsy
truthy(message_id) == message_id # <<>> /\ message_id[1] # 0

\* (variant: pop(0) for pop())
pop_last_takes_first(s) == SubSeq(s, 2, Len(s))
\* list.pop() and list.pop(0)
pop_last(s) == SubSeq(s, 1, Len(s) - 1)
pop_first(s) == SubSeq(s, 2, Len(s))

\* (variants: no size limit; the limit drops the entry just appended)
append_unbounded(s, e) == Append(s, e)
append_drop_newest(s, e) ==
  LET a == Append(s, e)
  IN IF Len(a) > max_messages_per_session THEN pop_last(a) ELSE a
\* list.append((message_id, timestamp)), then the size limit
append(s, e) ==
  LET a == Append(s, e)
  IN IF Len(a) > max_messages_per_session THEN pop_first(a) ELSE a

\* datetime.fromtimestamp(ts).strftime("%H:%M:%S"), ts in half seconds
time_str(ts) ==
  LET sec == ts \div 2
  IN <<(sec \div 3600) % 24, (sec \div 60) % 60, sec % 60>>

\* ------------------------------------------------------------- state
\* sent_messages: the dict umo -> list of <<message_id, timestamp>>
\* task[t]: one handler invocation: the event's attributes (umo, platform, inst =
\*   isinstance(event, AiocqhttpMessageEvent), text = event.message_str), the
\*   handler's locals (target, recall), where it is suspended (pc), the delete_msg
\*   calls it has issued (dels) and what it logged or replied (out, err, listing)
\* alive: FALSE once terminate has run; now: the clock; nextId: the next id the
\* platform gives a message; cnt: the events started so far; wire: the last
\* outgoing message, as the handler produced it and as the transport sent it
IdleTask ==
  [h |-> "none", pc |-> "idle", umo |-> "", platform |-> "", inst |-> FALSE,
   text |-> <<>>, target |-> <<>>, recall |-> <<>>, wake |-> 0, dels |-> <<>>,
   out |-> "", err |-> "", stopped |-> FALSE, listing |-> <<>>]

Init ==
  /\ sent_messages = [k \in {} |-> <<>>]
  /\ task = [t \in Tasks |-> IdleTask]
  /\ alive = TRUE
  /\ now = 0
  /\ nextId = 1
  /\ cnt = [ev |-> 0, rec |-> 0, rc |-> 0]
  /\ wire = [text |-> <<>>, sent |-> <<>>, umo |-> "", platform |-> "", id |-> <<>>]

\* umo in self.sent_messages
has(umo) == umo \in DOMAIN sent_messages

\* a handler of task t is suspended at an await
suspended(t) == task[t].pc \notin {"idle", "done"}

\* the event loop gives a new event the first slot with no handler in flight
free(t) == ~suspended(t) /\ \A u \in 1..(t - 1) : suspended(u)

\* the handler of task t is entered with these event attributes
enter(t, h, umo, platform, inst) ==
  [IdleTask EXCEPT !.h = h, !.umo = umo, !.platform = platform, !.inst = inst]

\* the handler returns (or its generator yields its last result)
finish(r, out) == [r EXCEPT !.pc = "done", !.out = out]

\* (variant: no except clause, the exception leaves the handler)
uncaught(r, e, out) == [r EXCEPT !.err = e, !.pc = "escaped"]
\* an exception reaches the handler's except clause
caught(r, e, out) == finish([r EXCEPT !.err = e], out)

\* client.api.call_action('delete_msg', message_id=id) is issued
call_delete(r, id) ==
  [r EXCEPT !.dels = Append(@, [id |-> id, at |-> now, res |-> "pending"])]

\* the pending call returns, or raises
delete_returned(r, ok) ==
  [r EXCEPT !.dels[Len(r.dels)].res = IF ok THEN "ok" ELSE "raised"]

\* (variant: one list shared by all keys)
with_ledger_shared(umo, s) == [k \in DOMAIN sent_messages \cup {umo} |-> s]
\* self.sent_messages[umo] = s
with_ledger(umo, s) == [k \in DOMAIN sent_messages \cup {umo} |->
                          IF k = umo THEN s ELSE sent_messages[k]]

\* (variant: no platform test)
supported_any(platform_name) == TRUE
\* platform_name not in ["aiocqhttp"], negated
supported(platform_name) == platform_name \in SUPPORTED

\* self.sent_messages[umo][-1][0] and self.sent_messages[umo][-2][0]
last_id(s) == s[Len(s)][1]
\* (variant: [0] for [-2])
prev_id_first(s) == s[1][1]
prev_id(s) == s[Len(s) - 1][1]

\* (variant: the empty list is not tested)
no_records_missing_only(umo) == ~has(umo)
\* umo not in self.sent_messages or not self.sent_messages[umo]
no_records(umo) == ~has(umo) \/ sent_messages[umo] = <<>>

\* ---------------------------------------------- detect_recall_keyword
\* entry up to the first await (the delete of the target) or the return
detect_recall_keyword(t, umo, platform_name, inst, text) ==
  /\ alive
  /\ free(t)
  /\ LET r == [enter(t, "detect", umo, platform_name, inst) EXCEPT !.text = text]
     IN task' = [task EXCEPT ![t] =
          IF ~KeywordOf[text] THEN finish(r, "ignored")
          ELSE IF ~supported(platform_name) THEN finish(r, "warn_unsupported")
          ELSE IF ~has(umo) \/ Len(sent_messages[umo]) < 2
               THEN finish(r, "warn_insufficient")
          ELSE IF ~(Len(sent_messages[umo]) >= 2) THEN finish(r, "nothing_done")
          ELSE LET s == sent_messages[umo]
                   q == [r EXCEPT !.recall = <<last_id(s)>>,
                                  !.target = <<prev_id(s)>>]
               IN IF ~inst THEN finish(q, "nothing_done")
                  ELSE call_delete([q EXCEPT !.pc = "del_target"], q.target[1])]
  /\ UNCHANGED <<sent_messages, alive>>

\* the delete of the target returns: asyncio.sleep(0.5) starts; or it raises
detect_target_returns(t, ok) ==
  /\ task[t].pc = "del_target"
  /\ LET r == delete_returned(task[t], ok)
     IN task' = [task EXCEPT ![t] =
          IF ok THEN [r EXCEPT !.pc = "sleep", !.wake = now + SETTLE_DELAY]
          ELSE caught(r, "transport", "error_logged")]
  /\ UNCHANGED <<sent_messages, alive>>

\* (variant: no settle delay)
detect_sleep_returns_at_once(t) ==
  /\ task[t].pc = "sleep"
  /\ task' = [task EXCEPT ![t] =
        call_delete([task[t] EXCEPT !.pc = "del_marker"], task[t].recall[1])]
  /\ UNCHANGED <<sent_messages, alive>>
\* (variant: the timer fires only after the delay has been exceeded)
detect_sleep_returns_late(t) ==
  /\ task[t].pc = "sleep"
  /\ now > task[t].wake
  /\ task' = [task EXCEPT ![t] =
        call_delete([task[t] EXCEPT !.pc = "del_marker"], task[t].recall[1])]
  /\ UNCHANGED <<sent_messages, alive>>
\* the sleep is over: the delete of the [recall] message is issued
detect_sleep_returns(t) ==
  /\ task[t].pc = "sleep"
  /\ now >= task[t].wake
  /\ task' = [task EXCEPT ![t] =
        call_delete([task[t] EXCEPT !.pc = "del_marker"], task[t].recall[1])]
  /\ UNCHANGED <<sent_messages, alive>>

\* the second delete returns: both entries are popped, the event is stopped
detect_marker_returns(t, ok) ==
  /\ task[t].pc = "del_marker"
  /\ LET r == delete_returned(task[t], ok)
         umo == r.umo
     IN IF ~ok
        THEN /\ task' = [task EXCEPT ![t] = caught(r, "transport", "error_logged")]
             /\ UNCHANGED sent_messages
        ELSE IF ~has(umo)
        THEN /\ task' = [task EXCEPT ![t] = caught(r, "KeyError", "error_logged")]
             /\ UNCHANGED sent_messages
        ELSE /\ sent_messages' =
                   IF Len(sent_messages[umo]) >= 2
                   THEN with_ledger(umo, pop_last(pop_last(sent_messages[umo])))
                   ELSE sent_messages
             /\ task' = [task EXCEPT ![t] =
                   finish([r EXCEPT !.stopped = TRUE], "recalled")]
  /\ UNCHANGED alive

\* ------------------------------------------------ record_sent_message
record_sent_message(t, umo, platform_name, inst, message_id) ==
  /\ alive
  /\ free(t)
  /\ LET r == enter(t, "record", umo, platform_name, inst)
         s == IF has(umo) THEN sent_messages[umo] ELSE <<>>
     IN IF ~supported(platform_name)
        THEN /\ task' = [task EXCEPT ![t] = finish(r, "skipped_platform")]
             /\ UNCHANGED sent_messages
        ELSE IF ~inst
        THEN /\ task' = [task EXCEPT ![t] = finish(r, "not_instance")]
             /\ UNCHANGED sent_messages
        ELSE IF ~truthy(message_id)
        THEN /\ task' = [task EXCEPT ![t] = finish(r, "no_id")]
             /\ sent_messages' = with_ledger(umo, s)
        ELSE /\ task' = [task EXCEPT ![t] = finish(r, "recorded")]
             /\ sent_messages' = with_ledger(umo, append(s, <<message_id[1], now>>))
  /\ UNCHANGED alive

\* ------------------------------------------------------ manual_recall
\* (variant: the entry is popped when it is read)
manual_recall_pop(t, umo, platform_name, inst) ==
  /\ alive
  /\ free(t)
  /\ LET r == enter(t, "manual", umo, platform_name, inst)
         s == sent_messages[umo]
         go == supported(platform_name) /\ ~no_records(umo) /\ inst
     IN /\ task' = [task EXCEPT ![t] =
             IF go THEN call_delete([r EXCEPT !.target = <<last_id(s)>>,
                                              !.pc = "del_manual"], last_id(s))
             ELSE finish(r, "reply_no_records")]
        /\ sent_messages' = IF go THEN with_ledger(umo, pop_last(s)) ELSE sent_messages
  /\ UNCHANGED alive
\* entry up to the await of the delete, or the reply
manual_recall(t, umo, platform_name, inst) ==
  /\ alive
  /\ free(t)
  /\ LET r == enter(t, "manual", umo, platform_name, inst)
     IN task' = [task EXCEPT ![t] =
          IF ~supported(platform_name) THEN finish(r, "reply_unsupported")
          ELSE IF no_records(umo) THEN finish(r, "reply_no_records")
          ELSE IF sent_messages[umo] = <<>> THEN caught(r, "IndexError", "reply_error")
          ELSE LET s == sent_messages[umo]
                   q == [r EXCEPT !.target = <<last_id(s)>>]
               IN IF ~inst THEN finish(q, "reply_type_error")
                  ELSE call_delete([q EXCEPT !.pc = "del_manual"], q.target[1])]
  /\ UNCHANGED <<sent_messages, alive>>

\* the delete returns: the last entry is popped; or it raises
manual_returns(t, ok) ==
  /\ task[t].pc = "del_manual"
  /\ LET r == delete_returned(task[t], ok)
         umo == r.umo
     IN IF ~ok
        THEN /\ task' = [task EXCEPT ![t] = caught(r, "transport", "reply_error")]
             /\ UNCHANGED sent_messages
        ELSE IF ~has(umo)
        THEN /\ task' = [task EXCEPT ![t] = caught(r, "KeyError", "reply_error")]
             /\ UNCHANGED sent_messages
        ELSE IF sent_messages[umo] = <<>>
        THEN /\ task' = [task EXCEPT ![t] = caught(r, "IndexError", "reply_error")]
             /\ UNCHANGED sent_messages
        ELSE /\ task' = [task EXCEPT ![t] = finish(r, "reply_success")]
             /\ sent_messages' = with_ledger(umo, pop_last(sent_messages[umo]))
  /\ UNCHANGED alive

\* ------------------------------------------------- list_sent_messages
\* (variant: enumerate(messages) without reversed)
list_sent_messages_in_order(t, umo) ==
  /\ alive
  /\ free(t)
  /\ LET r == enter(t, "list", umo, "", FALSE)
     IN task' = [task EXCEPT ![t] =
          IF ~has(umo) \/ sent_messages[umo] = <<>> THEN finish(r, "reply_empty")
          ELSE LET s == sent_messages[umo]
               IN finish([r EXCEPT !.listing =
                    [i \in 1..Len(s) |-> <<i, s[i][1], time_str(s[i][2])>>]],
                    "reply_list")]
  /\ UNCHANGED <<sent_messages, alive>>
list_sent_messages(t, umo) ==
  /\ alive
  /\ free(t)
  /\ LET r == enter(t, "list", umo, "", FALSE)
     IN task' = [task EXCEPT ![t] =
          IF ~has(umo) \/ sent_messages[umo] = <<>> THEN finish(r, "reply_empty")
          ELSE LET s == sent_messages[umo]
                   n == Len(s)
               IN finish([r EXCEPT !.listing =
                    [i \in 1..n |-> <<i, s[n + 1 - i][1], time_str(s[n + 1 - i][2])>>]],
                    "reply_list")]
  /\ UNCHANGED <<sent_messages, alive>>

\* ---------------------------------------------------------- show_help
show_help(t) ==
  /\ alive
  /\ free(t)
  /\ task' = [task EXCEPT ![t] = finish(enter(t, "help", "", "", FALSE), "reply_help")]
  /\ UNCHANGED <<sent_messages, alive>>

\* ---------------------------------------------------------- terminate
terminate ==
  /\ alive
  /\ alive' = FALSE
  /\ sent_messages' = [k \in {} |-> <<>>]
  /\ UNCHANGED task

\* ------------------------------------------------------- environment
\* the ids the post-send hook may find on the event: none, 0, or a fresh one
MessageIds == {<<>>, <<0>>, <<nextId>>}

Tick ==
  /\ now < MaxTime
  /\ now' = now + 1
  /\ UNCHANGED <<sent_messages, task, alive, nextId, cnt, wire>>

Started == cnt.ev < MaxEvents /\ cnt' = [cnt EXCEPT !.ev = @ + 1]

Next ==
  \/ \E t \in Tasks, umo \in Keys, p \in Platforms, inst \in BOOLEAN, text \in Texts :
       detect_recall_keyword(t, umo, p, inst, text) /\ Started
                                         /\ UNCHANGED <<now, nextId, wire>>
  \/ \E t \in Tasks, ok \in BOOLEAN :
       detect_target_returns(t, ok) /\ UNCHANGED <<now, nextId, cnt, wire>>
  \/ \E t \in Tasks :
       detect_sleep_returns(t) /\ UNCHANGED <<now, nextId, cnt, wire>>
  \/ \E t \in Tasks, ok \in BOOLEAN :
       detect_marker_returns(t, ok) /\ UNCHANGED <<now, nextId, cnt, wire>>
  \/ \E t \in Tasks, umo \in Keys, p \in Platforms, inst \in BOOLEAN, m \in MessageIds :
       record_sent_message(t, umo, p, inst, m) /\ Started
         /\ nextId' = (IF m = <<nextId>> THEN nextId + 1 ELSE nextId)
         /\ UNCHANGED <<now, wire>>
  \/ \E t \in Tasks, umo \in Keys, p \in Platforms, inst \in BOOLEAN :
       manual_recall(t, umo, p, inst) /\ Started /\ UNCHANGED <<now, nextId, wire>>
  \/ \E t \in Tasks, ok \in BOOLEAN :
       manual_returns(t, ok) /\ UNCHANGED <<now, nextId, cnt, wire>>
  \/ \E t \in Tasks, umo \in Keys :
       list_sent_messages(t, umo) /\ Started /\ UNCHANGED <<now, nextId, wire>>
  \/ \E t \in Tasks : show_help(t) /\ Started /\ UNCHANGED <<now, nextId, wire>>
  \/ terminate /\ UNCHANGED <<now, nextId, cnt, wire>>
  \/ Tick

Spec == Init /\ [][Next]_vars

\* ------------------------------------------- a long run of one chat
\* One conversation on the supporting platform, every sent id resolved and the
\* handlers run one at a time (an event is taken when no handler is suspended):
\* long enough to fill the ledger past its limit, with recalls and listings
\* between. The clock is read only by the settle delay, and ticks only during it.
Quiet == \A t \in Tasks : ~suspended(t)
Recorded == Quiet /\ cnt.rec < CapRecords /\ cnt' = [cnt EXCEPT !.rec = @ + 1]
Recalled == Quiet /\ cnt.rc < CapRecalls /\ cnt' = [cnt EXCEPT !.rc = @ + 1]

NextCap ==
  \/ \E t \in Tasks :
       record_sent_message(t, "k1", "aiocqhttp", TRUE, <<nextId>>) /\ Recorded
         /\ nextId' = nextId + 1 /\ UNCHANGED <<now, wire>>
  \/ \E t \in Tasks :
       detect_recall_keyword(t, "k1", "aiocqhttp", TRUE, MARKER) /\ Recalled
         /\ UNCHANGED <<now, nextId, wire>>
  \/ \E t \in Tasks, ok \in BOOLEAN :
       detect_target_returns(t, ok) /\ UNCHANGED <<now, nextId, cnt, wire>>
  \/ \E t \in Tasks :
       detect_sleep_returns(t) /\ UNCHANGED <<now, nextId, cnt, wire>>
  \/ \E t \in Tasks, ok \in BOOLEAN :
       detect_marker_returns(t, ok) /\ UNCHANGED <<now, nextId, cnt, wire>>
  \/ \E t \in Tasks :
       manual_recall(t, "k1", "aiocqhttp", TRUE) /\ Recalled /\ UNCHANGED <<now, nextId, wire>>
  \/ \E t \in Tasks, ok \in BOOLEAN :
       manual_returns(t, ok) /\ UNCHANGED <<now, nextId, cnt, wire>>
  \/ \E t \in Tasks :
       list_sent_messages(t, "k1") /\ Recalled /\ UNCHANGED <<now, nextId, wire>>
  \/ Tick /\ \E t \in Tasks : task[t].pc = "sleep"

SpecCap == Init /\ [][NextCap]_vars

\* --------------------------------------- interleaved handlers of one chat
\* One conversation on the supporting platform, every sent id resolved, and the
\* handlers interleaved at their awaits. The clock goes on while a handler sleeps.
RaceStarted == cnt.ev < RaceEvents /\ cnt' = [cnt EXCEPT !.ev = @ + 1]

RaceTick ==
  /\ now < MaxTime \/ \E t \in Tasks : task[t].pc = "sleep" /\ now < task[t].wake
  /\ now' = now + 1
  /\ UNCHANGED <<sent_messages, task, alive, nextId, cnt, wire>>

NextRace ==
  \/ \E t \in Tasks :
       record_sent_message(t, "k1", "aiocqhttp", TRUE, <<nextId>>) /\ RaceStarted
         /\ nextId' = nextId + 1 /\ UNCHANGED <<now, wire>>
  \/ \E t \in Tasks :
       detect_recall_keyword(t, "k1", "aiocqhttp", TRUE, MARKER) /\ RaceStarted
         /\ UNCHANGED <<now, nextId, wire>>
  \/ \E t \in Tasks, ok \in BOOLEAN :
       detect_target_returns(t, ok) /\ UNCHANGED <<now, nextId, cnt, wire>>
  \/ \E t \in Tasks :
       detect_sleep_returns(t) /\ UNCHANGED <<now, nextId, cnt, wire>>
  \/ \E t \in Tasks, ok \in BOOLEAN :
       detect_marker_returns(t, ok) /\ UNCHANGED <<now, nextId, cnt, wire>>
  \/ \E t \in Tasks :
       manual_recall(t, "k1", "aiocqhttp", TRUE) /\ RaceStarted
         /\ UNCHANGED <<now, nextId, wire>>
  \/ \E t \in Tasks, ok \in BOOLEAN :
       manual_returns(t, ok) /\ UNCHANGED <<now, nextId, cnt, wire>>
  \/ RaceTick

SpecRace == Init /\ [][NextRace]_vars

\* The event loop runs every ready handler, the clock goes on and every delete
\* call returns or raises in the end.
Fairness ==
  /\ WF_vars(RaceTick)
  /\ \A t \in Tasks :
       /\ WF_vars(\E ok \in BOOLEAN :
            detect_target_returns(t, ok) /\ UNCHANGED <<now, nextId, cnt, wire>>)
       /\ WF_vars(detect_sleep_returns(t) /\ UNCHANGED <<now, nextId, cnt, wire>>)
       /\ WF_vars(\E ok \in BOOLEAN :
            detect_marker_returns(t, ok) /\ UNCHANGED <<now, nextId, cnt, wire>>)
       /\ WF_vars(\E ok \in BOOLEAN :
            manual_returns(t, ok) /\ UNCHANGED <<now, nextId, cnt, wire>>)

SpecLive == Init /\ [][NextRace]_vars /\ Fairness

\* ------------------------------------------------------ outgoing messages
\* The bot sends a message. The plugin registers no handler that runs before the
\* transmission: its handlers are the inbound filter, the three commands and
\* after_message_sent. So the transport sends the text as it is, and then
\* record_sent_message runs with the id the platform gave, if it gave one.
message_sent(t, umo, platform_name, text, message_id) ==
  /\ wire' = [text |-> text, sent |-> text, umo |-> umo,
              platform |-> platform_name, id |-> message_id]
  /\ record_sent_message(t, umo, platform_name, supported(platform_name), message_id)

\* The text of the last sent message comes to the inbound filter as an event of
\* the same conversation.
sent_scanned(t) ==
  /\ wire.umo # ""
  /\ detect_recall_keyword(t, wire.umo, wire.platform, supported(wire.platform),
                           wire.text)

NextSend ==
  \/ \E t \in Tasks, p \in Platforms, text \in SendTexts, m \in {<<>>, <<nextId>>} :
       message_sent(t, "k1", p, text, m) /\ RaceStarted
         /\ nextId' = (IF m = <<nextId>> THEN nextId + 1 ELSE nextId)
         /\ UNCHANGED now
  \/ \E t \in Tasks :
       sent_scanned(t) /\ RaceStarted /\ UNCHANGED <<now, nextId, wire>>
  \/ \E t \in Tasks, ok \in BOOLEAN :
       detect_target_returns(t, ok) /\ UNCHANGED <<now, nextId, cnt, wire>>
  \/ \E t \in Tasks :
       detect_sleep_returns(t) /\ UNCHANGED <<now, nextId, cnt, wire>>
  \/ \E t \in Tasks, ok \in BOOLEAN :
       detect_marker_returns(t, ok) /\ UNCHANGED <<now, nextId, cnt, wire>>
  \/ RaceTick

SpecSend == Init /\ [][NextSend]_vars


\* ================================================================ claims
\* the ids of the entries of a ledger, and the handler invocation started by a step
Ids(s) == {s[i][1] : i \in 1..Len(s)}
Starts(t, h) == cnt' # cnt /\ free(t) /\ task'[t].h = h

\* C1: every ledger holds at most max_messages_per_session (20) entries in every
\* reachable state, whatever records, recalls and listings have run.
C1_LedgerBounded ==
  \A k \in DOMAIN sent_messages : Len(sent_messages[k]) <= 20

\* a full ledger that has evicted an entry and has seen a recall or a listing
C1_Witness ==
  /\ has("k1") /\ Len(sent_messages["k1"]) = 20
  /\ cnt.rec > 20 /\ cnt.rc > 0

\* C2: after n appends and no removal the ledger holds exactly the min(n, 20)
\* most recently appended entries, in send order (the n-th append has id n).
C2_FifoEviction ==
  (cnt.rc = 0 /\ cnt.rec > 0) =>
    LET s == sent_messages["k1"]
        n == cnt.rec
        len == IF n > 20 THEN 20 ELSE n
    IN /\ Len(s) = len
       /\ \A i \in 1..len : s[i][1] = n - len + i

\* two entries have been evicted and the ledger is full
C2_Witness ==
  /\ cnt.rc = 0 /\ cnt.rec = 22
  /\ Len(sent_messages["k1"]) = 20 /\ sent_messages["k1"][1][1] = 3

\* the calls a marker recall has issued: its target first, its marker second and
\* no third; the second only after the first returned and the settle delay passed
C3_Order ==
  \A t \in Tasks : task[t].h = "detect" =>
    LET d == task[t].dels
    IN /\ Len(d) <= 2
       /\ Len(d) >= 1 => d[1].id = task[t].target[1]
       /\ Len(d) = 2 => /\ d[1].res = "ok"
                        /\ d[2].id = task[t].recall[1]
                        /\ d[2].at >= d[1].at + 1

\* the target is the id of the second-to-last entry, the marker that of the last
C3_Picks ==
  \A t \in Tasks : (Starts(t, "detect") /\ task'[t].dels # <<>>) =>
    LET s == sent_messages[task'[t].umo]
    IN /\ task'[t].dels = <<[id |-> s[Len(s) - 1][1], at |-> now, res |-> "pending"]>>
       /\ task'[t].recall = <<s[Len(s)][1]>>

\* C3: a marker recall deletes the second-to-last entry's id first and the last
\* entry's id second, the second call is issued only after the first has returned
\* and at least the settle delay after it; the marker delete is never first.
C3_TargetBeforeMarker == []C3_Order /\ [][C3_Picks]_vars

\* a marker recall has issued both deletes
C3_Witness ==
  \E t \in Tasks : task[t].h = "detect" /\ Len(task[t].dels) = 2

\* C4: a record, marker-recall or manual-recall handler entered on a platform
\* other than "aiocqhttp" returns at once, with no delete call issued and the
\* registry and every ledger as they were.
C4_UnsupportedDoesNothing ==
  [][\A t \in Tasks :
       (/\ cnt' # cnt /\ free(t)
        /\ task'[t].h \in {"detect", "manual", "record"}
        /\ task'[t].platform # "aiocqhttp")
       => /\ task'[t].dels = <<>>
          /\ task'[t].pc = "done"
          /\ sent_messages' = sent_messages]_vars

\* the marker arrived on an unsupported platform in a chat with two entries
C4_Witness ==
  \E t \in Tasks :
    /\ task[t].h = "detect" /\ task[t].platform = "telegram"
    /\ task[t].text = MARKER
    /\ has(task[t].umo) /\ Len(sent_messages[task[t].umo]) >= 2

\* C5 (as claimed): manual recall on a missing or empty ledger replies "nothing to
\* recall", issues no delete and leaves the registry unchanged.
C5_EmptyLedgerReply ==
  [][\A t \in Tasks :
       (/\ Starts(t, "manual")
        /\ (~has(task'[t].umo) \/ sent_messages[task'[t].umo] = <<>>))
       => /\ task'[t].out = "reply_no_records"
          /\ task'[t].dels = <<>>
          /\ task'[t].pc = "done"
          /\ sent_messages' = sent_messages]_vars

\* C5 (amended): the same, on the platform "aiocqhttp"; on another platform the
\* reply is the unsupported-platform message, with no delete and no change either.
C5_EmptyLedgerReplySupported ==
  [][\A t \in Tasks :
       (/\ Starts(t, "manual")
        /\ (~has(task'[t].umo) \/ sent_messages[task'[t].umo] = <<>>))
       => /\ task'[t].out = IF task'[t].platform = "aiocqhttp"
                            THEN "reply_no_records" ELSE "reply_unsupported"
          /\ task'[t].dels = <<>>
          /\ task'[t].pc = "done"
          /\ sent_messages' = sent_messages]_vars

\* manual recall has answered "nothing to recall" in a chat whose ledger exists
\* and is empty
C5_Witness ==
  \E t \in Tasks :
    /\ task[t].h = "manual" /\ task[t].out = "reply_no_records"
    /\ task[t].platform = "aiocqhttp"
    /\ has(task[t].umo) /\ sent_messages[task[t].umo] = <<>>

C7_SecondStillAttempted ==
  \A t \in Tasks :
    (/\ task[t].h = "detect" /\ task[t].pc = "done"
     /\ task[t].dels # <<>> /\ task[t].dels[1].res = "raised")
    => Len(task[t].dels) = 2

\* C8 (as claimed): when a recall has returned, an id whose delete succeeded has
\* no entry in the ledger and an id whose delete raised still has one.
C8_LedgerFollowsTransport ==
  \A t \in Tasks :
    (task[t].h \in {"detect", "manual"} /\ task[t].pc = "done") =>
      \A i \in 1..Len(task[t].dels) :
        LET d == task[t].dels[i]
            ids == IF has(task[t].umo) THEN Ids(sent_messages[task[t].umo]) ELSE {}
        IN /\ d.res = "ok" => d.id \notin ids
           /\ d.res = "raised" => d.id \in ids

\* C9: from the ledger [(1,t1),(2,t2)], the marker message recorded as (3,t3) and
\* the marker recall run with no delete raising: the deletes issued are 2 then 3
\* and the ledger ends as [(1,t1)].
C9_EndToEnd ==
  \A t \in Tasks :
    (/\ task[t].h = "detect" /\ task[t].pc = "done"
     /\ cnt.rec = 3 /\ cnt.rc = 1
     /\ \A i \in 1..Len(task[t].dels) : task[t].dels[i].res # "raised")
    => /\ [i \in 1..Len(task[t].dels) |-> task[t].dels[i].id] = <<2, 3>>
       /\ sent_messages["k1"] = << <<1, 0>> >>

\* that recall has returned
C9_Witness ==
  \E t \in Tasks :
    /\ task[t].h = "detect" /\ task[t].out = "recalled"
    /\ cnt.rec = 3 /\ cnt.rc = 1

\* C10: the inbound handler issues a delete only if the text, trimmed and in lower
\* case, is the marker, the chat's ledger has at least 2 entries and the platform
\* is "aiocqhttp"; otherwise it returns at once with no delete issued, the ledger
\* unchanged and the event not stopped. Entering the handler never changes a ledger.
TriggerTexts == { <<"[", "r", "e", "c", "a", "l", "l", "]">>,
                  <<" ", "[", "R", "e", "c", "a", "l", "l", "]", "\n">> }

C10_RecallOnlyOnTrigger ==
  [][\A t \in Tasks :
       /\ Starts(t, "detect") =>
            LET r == task'[t]
                cond == /\ r.text \in TriggerTexts
                        /\ has(r.umo) /\ Len(sent_messages[r.umo]) >= 2
                        /\ r.platform = "aiocqhttp"
            IN /\ sent_messages' = sent_messages
               /\ r.dels # <<>> => cond
               /\ ~cond => r.pc = "done"
       /\ (task'[t].h = "detect" /\ task'[t].dels = <<>>) =>
            (task'[t].pc = "done" /\ ~task'[t].stopped)]_vars

\* the marker with surrounding whitespace and capitals has started a recall
C10_Witness ==
  \E t \in Tasks :
    /\ task[t].h = "detect" /\ task[t].dels # <<>>
    /\ task[t].text = <<" ", "[", "R", "e", "c", "a", "l", "l", "]", "\n">>

\* C11 (as claimed): a marker recall that has issued a delete and has returned,
\* with every delete succeeding or with some failing, has stopped the event.
C11_StoppedOnCompletion ==
  \A t \in Tasks :
    (task[t].h = "detect" /\ task[t].pc = "done" /\ task[t].dels # <<>>)
    => task[t].stopped

\* C12: the listing command leaves the registry and every ledger as they are and
\* replies with the chat's entries, numbered from 1, the most recent first, each
\* with its id and its time of day; the reply is a function of the ledger alone,
\* so that repeating the command repeats the reply.
C12_ListingReadOnly ==
  [][\A t \in Tasks : Starts(t, "list") =>
       LET umo == task'[t].umo
           s == IF has(umo) THEN sent_messages[umo] ELSE <<>>
           l == task'[t].listing
       IN /\ sent_messages' = sent_messages
          /\ task'[t].pc = "done" /\ task'[t].dels = <<>>
          /\ Len(l) = Len(s)
          /\ \A i \in 1..Len(s) :
               /\ l[i][1] = i
               /\ l[i][2] = s[Len(s) - i + 1][1]
               /\ l[i][3] = <<0, 0, s[Len(s) - i + 1][2] \div 2>>
          /\ task'[t].out = IF s = <<>> THEN "reply_empty" ELSE "reply_list"]_vars

\* a listing of two entries, the later id first
C12_Witness ==
  \E t \in Tasks :
    /\ task[t].h = "list" /\ Len(task[t].listing) = 2
    /\ task[t].listing[1][2] > task[t].listing[2][2]

\* C13 (as claimed): an append followed at once by the pop of a successful manual
\* recall leaves the ledger as it was before the append, at capacity too. The
\* ledger before the n+1-st append, with no removal so far, holds the last
\* min(n, 20) of the ids 1..n.
C13_RoundTrip ==
  \A t \in Tasks :
    (task[t].h = "manual" /\ task[t].out = "reply_success" /\ cnt.rc = 1) =>
      LET n == cnt.rec - 1
          len == IF n > 20 THEN 20 ELSE n
      IN sent_messages["k1"] = [i \in 1..len |-> <<n - len + i, 0>>]

\* C13 (amended): below capacity the ledger is as it was before the append; at
\* capacity the append has evicted the oldest entry, and after the pop the ledger
\* holds the 19 entries that followed it.
C13_RoundTripBelowCapacity ==
  \A t \in Tasks :
    (task[t].h = "manual" /\ task[t].out = "reply_success" /\ cnt.rc = 1) =>
      LET n == cnt.rec - 1
      IN IF n < 20
         THEN sent_messages["k1"] = [i \in 1..n |-> <<i, 0>>]
         ELSE sent_messages["k1"] = [i \in 1..19 |-> <<n - 19 + i, 0>>]

\* the 20th append, to a ledger of 19 entries, has been popped again
C13_Witness ==
  \E t \in Tasks :
    /\ task[t].h = "manual" /\ task[t].out = "reply_success"
    /\ cnt.rc = 1 /\ cnt.rec = 20 /\ Len(sent_messages["k1"]) = 19

\* C14 (as claimed): once no handler is suspended, a message with the text
\* "done[recall]" sent on the supporting platform with a resolved id has gone out
\* as "done", a delete for its own id has been issued, and the ledger of its
\* conversation has no entry with that id.
C14_StrippedAndSelfRecalled ==
  (/\ wire.text = DONE_RECALL /\ supported(wire.platform) /\ wire.id # <<>>
   /\ \A t \in Tasks : ~suspended(t)) =>
    /\ wire.sent = DONE
    /\ \E t \in Tasks : \E i \in 1..Len(task[t].dels) : task[t].dels[i].id = wire.id[1]
    /\ ~has(wire.umo) \/ wire.id[1] \notin Ids(sent_messages[wire.umo])

\* C15 (as claimed): no two recall handlers of one conversation are at the same
\* time between their first read of the ledger and their last update of it; a
\* handler suspended at a delete or at the settle delay is between the two.
C15_OneRecallInFlight ==
  \A t, u \in Tasks :
    (t # u /\ suspended(t) /\ suspended(u)) => task[t].umo # task[u].umo

\* the ids a handler record holds in its locals
Held(r) == {r.target[i] : i \in 1..Len(r.target)} \cup {r.recall[i] : i \in 1..Len(r.recall)}

C17_NoFailureFatal ==
  [][\A t \in Tasks :
       /\ task'[t].pc \in {"idle", "del_target", "sleep", "del_marker", "del_manual", "done"}
       /\ (suspended(t) /\ task'[t] # task[t]) =>
            LET r == task'[t]
                umo == task[t].umo
                raised == r.dels[Len(r.dels)].res = "raised"
                gone == /\ task[t].pc \in {"del_marker", "del_manual"}
                        /\ r.dels[Len(r.dels)].res = "ok"
                        /\ \/ ~has(umo)
                           \/ task[t].pc = "del_manual" /\ sent_messages[umo] = <<>>
            IN (raised \/ gone) =>
                 /\ r.pc = "done"
                 /\ r.err = IF raised THEN "transport"
                            ELSE IF ~has(umo) THEN "KeyError" ELSE "IndexError"
                 /\ r.out = IF r.h = "manual" THEN "reply_error" ELSE "error_logged"
                 /\ sent_messages' = sent_messages]_vars

\* a manual recall whose delete succeeded found the ledger emptied by another
\* recall and answered with the error message
C17_Witness ==
  \E t \in Tasks :
    /\ task[t].h = "manual" /\ task[t].pc = "done"
    /\ task[t].err = "IndexError" /\ task[t].out = "reply_error"
    /\ task[t].dels # <<>> /\ task[t].dels[1].res = "ok"

\* C18 (as claimed): when the marker recall ends by removing entries from the
\* ledger of its conversation, the ids of the entries removed are the two ids it
\* issued deletes for, whatever ran while it was suspended.
C18_RemovesWhatItDeleted ==
  [][\A t \in Tasks :
       (/\ task[t].pc = "del_marker" /\ task'[t].pc = "done"
        /\ sent_messages' # sent_messages) =>
         LET umo == task[t].umo
         IN Ids(sent_messages[umo]) \ Ids(sent_messages'[umo])
              = {task[t].target[1], task[t].recall[1]}]_vars

\* C19: with a fair event loop, a running clock and delete calls that return or
\* raise in the end, every marker-recall handler that is suspended (it has left
\* Idle and awaits a delete or the settle delay) reaches its end, whether its
\* deletes succeed or raise.
C19_RecallTerminates ==
  \A t \in Tasks :
    (task[t].h = "detect" /\ suspended(t)) ~> (task[t].h = "detect" /\ task[t].pc = "done")

\* a marker recall has slept and has ended after its second delete raised
C19_Witness ==
  \E t \in Tasks :
    /\ task[t].h = "detect" /\ task[t].pc = "done"
    /\ Len(task[t].dels) = 2 /\ task[t].dels[2].res = "raised"

\* the entries of the ledger of key k, none when the key is not registered
Entries(m, k) == IF k \in DOMAIN m THEN m[k] ELSE <<>>

\* C20: when record_sent_message finds no id on the sent message (None, or the 0
\* that the code takes for none), the entries of every ledger are the same after
\* as before, in the same order, the handler issues no delete and ends, and no
\* other handler is touched.
C20_UnresolvedIdNoEffect ==
  [][\A t \in Tasks :
       (Starts(t, "record") /\ nextId' = nextId) =>
         /\ \A k \in Keys : Entries(sent_messages', k) = Entries(sent_messages, k)
         /\ task'[t].dels = <<>> /\ task'[t].pc = "done"
         /\ \A u \in Tasks \ {t} : task'[u] = task[u]]_vars

\* the hook found no id on the supporting platform while the ledger had an entry
C20_Witness ==
  \E t \in Tasks :
    /\ task[t].h = "record" /\ task[t].out = "no_id"
    /\ has(task[t].umo) /\ sent_messages[task[t].umo] # <<>>

====
